---- MODULE Spec2Model ----
(***************************************************************************)
(* Model of tools/dictionaries/generate_kannada_dictionary.py: the         *)
(* pipeline of main (source file -> word counts -> seed words -> ranked    *)
(* words -> merge -> frequencies -> output file) as a state machine, with  *)
(* the pure functions it calls as operators.                               *)
(*                                                                         *)
(* A string is a sequence of Unicode code points (integers); a text file   *)
(* is the sequence of its lines, without the line terminators.  No line    *)
(* of the model holds a character that str.splitlines treats as a line     *)
(* boundary.                                                               *)
(***************************************************************************)
EXTENDS Integers, Sequences, FiniteSets, TLC

VARIABLES
    pc,              \* position of main: the statement that runs next
    args,            \* argparse.Namespace returned by parse_args
    cache,           \* CACHE_FILE on disk: [exists, lines]
    remote,          \* the lines served at ALAR_URL
    asset,           \* ASSET_PATH on disk: [exists, lines]
    asset0,          \* ASSET_PATH as it was when the run started
    counter,         \* Counter of main, as <<word, count>> in insertion order
    existing_words,  \* main: existing_words
    seed_words,      \* main: seed_words
    seed_set,        \* main: seed_set
    required,        \* main: required
    warned,          \* TRUE once the "Target count is less than ..." line is printed
    ranked_words,    \* main: ranked_words
    total_words,     \* main: total_words
    freqs,           \* main: freqs
    written          \* write_dictionary: entry lines written so far

vars == <<pc, args, cache, remote, asset, asset0, counter, existing_words,
          seed_words, seed_set, required, warned, ranked_words, total_words,
          freqs, written>>

-----------------------------------------------------------------------------
(* Bounds of the model. *)

\* longest ASSET_PATH file (in lines) a run starts from
MaxFileLines == 2
\* longest source lexicon (in lines)
MaxSourceLines == 2
\* largest --target-count
MaxTarget == 2
\* largest --seed-limit
MaxSeedLimit == 2
\* longest word list handed to assign_frequencies on its own
MaxWords == 4
\* largest --start-frequency / --min-frequency handed to assign_frequencies on its own
MaxFreq == 4
\* largest count of a word in a Counter handed to filter_ranked_words on its own
MaxCount == 2
\* largest Counter (in keys) handed to filter_ranked_words on its own
MaxKeys == 3
\* longest value (in characters) behind "entry:" handed to extract_word on its own
MaxRawLen == 5

-----------------------------------------------------------------------------
(* Python built-ins the program uses. *)

Min(a, b) == IF a <= b THEN a ELSE b

Max(a, b) == IF a >= b THEN a ELSE b

\* s[:n] of a Python sequence, n any integer
SlicePrefix(s, n) ==
    IF n >= 0 THEN SubSeq(s, 1, Min(n, Len(s)))
              ELSE SubSeq(s, 1, Max(Len(s) + n, 0))

\* the code points c with chr(c).isspace()
Whitespace ==
    {9, 10, 11, 12, 13, 28, 29, 30, 31, 32, 133, 160, 5760} \cup (8192..8202)
        \cup {8232, 8233, 8239, 8287, 12288}

\* number of leading whitespace characters of s
RECURSIVE LeadingSpaces(_)
LeadingSpaces(s) ==
    IF s = <<>> \/ Head(s) \notin Whitespace THEN 0
    ELSE 1 + LeadingSpaces(Tail(s))

\* number of trailing whitespace characters of s
RECURSIVE TrailingSpaces(_)
TrailingSpaces(s) ==
    IF s = <<>> \/ s[Len(s)] \notin Whitespace THEN 0
    ELSE 1 + TrailingSpaces(SubSeq(s, 1, Len(s) - 1))

\* str.strip()
Strip(s) ==
    IF LeadingSpaces(s) = Len(s) THEN <<>>
    ELSE SubSeq(s, LeadingSpaces(s) + 1, Len(s) - TrailingSpaces(s))

\* str.replace(ch, ""): s without the character ch
Remove(s, ch) == SelectSeq(s, LAMBDA c : c # ch)

\* s.startswith(p)
StartsWith(s, p) == Len(s) >= Len(p) /\ SubSeq(s, 1, Len(p)) = p

\* positions of the character ch in s
Positions(s, ch) == {i \in 1..Len(s) : s[i] = ch}

\* s.rsplit(" ", 1): split at the last U+0020, if there is one
RSplitSpace(s) ==
    IF Positions(s, 32) = {} THEN <<s>>
    ELSE LET k == CHOOSE i \in Positions(s, 32) : \A j \in Positions(s, 32) : j <= i
         IN  <<SubSeq(s, 1, k - 1), SubSeq(s, k + 1, Len(s))>>

\* a < b for Python strings: lexicographic by code point, a proper prefix first
RECURSIVE StrLess(_, _)
StrLess(a, b) ==
    IF b = <<>> THEN FALSE
    ELSE IF a = <<>> THEN TRUE
    ELSE IF Head(a) # Head(b) THEN Head(a) < Head(b)
    ELSE StrLess(Tail(a), Tail(b))

\* decimal digits of n >= 0
RECURSIVE Digits(_)
Digits(n) ==
    IF n < 10 THEN <<48 + n>> ELSE Digits(n \div 10) \o <<48 + (n % 10)>>

\* str(n) of an int, as f"{n}" formats it
IntStr(n) == IF n < 0 THEN <<45>> \o Digits(0 - n) ELSE Digits(n)

\* round(num / den) for den > 0: to the nearest integer, a tie to the even one
PyRound(num, den) ==
    LET q == num \div den
        r == num % den
    IN  IF 2 * r < den THEN q
        ELSE IF 2 * r > den THEN q + 1
        ELSE IF q % 2 = 0 THEN q ELSE q + 1

\* the elements of a sequence
Range(s) == {s[i] : i \in 1..Len(s)}

\* all sequences over S of length at most n
SeqsUpTo(S, n) == UNION {[1..k -> S] : k \in 0..n}

-----------------------------------------------------------------------------
(* Module-level constants of the program. *)

\* KANNADA_RANGE[0], U+0C80
KANNADA_LO == 3200

\* KANNADA_RANGE[1], U+0CFF
KANNADA_HI == 3327

\* the literal "entry:" of ENTRY_PATTERN
EntryTag == <<101, 110, 116, 114, 121, 58>>

\* group(1) of ENTRY_PATTERN.match(line), r"^\s*entry:\s*(.+)$"; <<>> when the
\* line does not match (a match never captures the empty string).  When only
\* whitespace follows "entry:", the greedy \s* gives its last character back
\* to (.+).
EntryCapture(line) ==
    LET rest == SubSeq(line, LeadingSpaces(line) + 1, Len(line))
    IN  IF ~StartsWith(rest, EntryTag) THEN <<>>
        ELSE LET after == SubSeq(rest, Len(EntryTag) + 1, Len(rest))
                 k == LeadingSpaces(after)
             IN  IF k < Len(after) THEN SubSeq(after, k + 1, Len(after))
                 ELSE IF k > 0 THEN <<after[k]>>
                 ELSE <<>>

-----------------------------------------------------------------------------
(* clean_existing_words *)

\* the range test without its lower bound
OutOfRangeAboveOnly(ch) == ch > KANNADA_HI

\* ch lies outside KANNADA_RANGE
OutOfRange(ch) == (ch < KANNADA_LO) \/ (ch > KANNADA_HI)

\* one iteration of the loop of clean_existing_words: words after `line`
CleanLine(words, line) ==
    LET stripped == Strip(line)
        parts == RSplitSpace(stripped)
        word == Strip(parts[1])
    IN  IF stripped = <<>> \/ StartsWith(stripped, <<35>>) THEN words
        ELSE IF Len(parts) # 2 THEN words
        ELSE IF word = <<>> THEN words
        ELSE IF \E i \in 1..Len(word) : OutOfRange(word[i]) THEN words
        ELSE IF Len(word) < 2 THEN words
        ELSE IF word \in Range(words) THEN words
        ELSE Append(words, word)

RECURSIVE CleanLines(_, _)
CleanLines(words, lines) ==
    IF lines = <<>> THEN words
    ELSE CleanLines(CleanLine(words, Head(lines)), Tail(lines))

\* clean_existing_words(path), path given as the file [exists, lines]
clean_existing_words(file) ==
    IF ~file.exists THEN <<>> ELSE CleanLines(<<>>, file.lines)

-----------------------------------------------------------------------------
(* extract_word and load_word_counts *)

\* a quote character, ' or "
IsQuote(ch) == ch \in {39, 34}

\* every character inside KANNADA_RANGE, wherever it stands
AllKannada(s) == SelectSeq(s, LAMBDA ch : ~OutOfRange(ch))

\* the longest leading run of characters inside KANNADA_RANGE
RECURSIVE LeadingKannada(_)
LeadingKannada(s) ==
    IF s = <<>> \/ OutOfRange(Head(s)) THEN <<>>
    ELSE <<Head(s)>> \o LeadingKannada(Tail(s))

\* extract_word(raw); None is <<>> (extract_word never returns the empty string)
extract_word(raw) ==
    LET unquoted == IF raw # <<>> /\ IsQuote(raw[1]) /\ IsQuote(raw[Len(raw)])
                    THEN SubSeq(raw, 2, Len(raw) - 1)
                    ELSE raw
        cleaned == Remove(Remove(Strip(unquoted), 8204), 8205)
        word == Strip(LeadingKannada(cleaned))
    IN  IF cleaned = <<>> THEN <<>>
        ELSE IF Len(word) < 2 THEN <<>>
        ELSE word

\* counter[word] += 1 on a Counter kept as <<word, count>> in insertion order
CounterAdd(cnt, word) ==
    IF \E i \in 1..Len(cnt) : cnt[i][1] = word
    THEN [i \in 1..Len(cnt) |->
             IF cnt[i][1] = word THEN <<word, cnt[i][2] + 1>> ELSE cnt[i]]
    ELSE Append(cnt, <<word, 1>>)

\* one iteration of the loop of load_word_counts
CountLine(cnt, line) ==
    LET captured == EntryCapture(line)
        word == extract_word(captured)
    IN  IF captured = <<>> THEN cnt
        ELSE IF word = <<>> THEN cnt
        ELSE CounterAdd(cnt, word)

RECURSIVE CountLines(_, _)
CountLines(cnt, lines) ==
    IF lines = <<>> THEN cnt
    ELSE CountLines(CountLine(cnt, Head(lines)), Tail(lines))

\* load_word_counts(path), path given as the lines of the file
load_word_counts(lines) == CountLines(<<>>, lines)

-----------------------------------------------------------------------------
(* filter_ranked_words *)

\* the sort key of filter_ranked_words without its last component
KeyLessNoLexical(a, b) ==
    \/ 0 - a[2] < 0 - b[2]
    \/ a[2] = b[2] /\ Len(a[1]) < Len(b[1])

\* key(a) < key(b) for key = lambda item: (-item[1], len(item[0]), item[0]),
\* compared as Python compares tuples
KeyLess(a, b) ==
    \/ 0 - a[2] < 0 - b[2]
    \/ a[2] = b[2] /\ Len(a[1]) < Len(b[1])
    \/ a[2] = b[2] /\ Len(a[1]) = Len(b[1]) /\ StrLess(a[1], b[1])

\* x put into the sorted list t behind every element whose key is not greater
RECURSIVE Insert(_, _)
Insert(t, x) ==
    IF t = <<>> THEN <<x>>
    ELSE IF KeyLess(x, Head(t)) THEN <<x>> \o t
    ELSE <<Head(t)>> \o Insert(Tail(t), x)

\* list.sort(key=...): stable, ascending by key
RECURSIVE SortByKey(_)
SortByKey(s) ==
    IF s = <<>> THEN <<>>
    ELSE Insert(SortByKey(SubSeq(s, 1, Len(s) - 1)), s[Len(s)])

\* the length test of filter_ranked_words without its lower bound
LengthOKNoMin(word, min_len, max_len) == ~(Len(word) > max_len)

\* the length test of the loop of filter_ranked_words
LengthOK(word, min_len, max_len) ==
    ~(Len(word) < min_len \/ Len(word) > max_len)

\* filter_ranked_words(counter, banned, keep, min_len, max_len)
filter_ranked_words(cnt, banned, keep, min_len, max_len) ==
    LET candidates == SelectSeq(cnt, LAMBDA item :
                          item[1] \notin banned /\ LengthOK(item[1], min_len, max_len))
        kept == SlicePrefix(SortByKey(candidates), keep)
    IN  [i \in 1..Len(kept) |-> kept[i][1]]

-----------------------------------------------------------------------------
(* assign_frequencies *)

\* the frequency of position idx (from 0) without the clamp to minimum
FrequencyAtNoClamp(idx, n, start, minimum) ==
    PyRound(start * (n - 1) - idx * (start - minimum), n - 1)

\* the frequency of position idx (from 0) with frac = idx / len(words)
FrequencyAtLenDenominator(idx, n, start, minimum) ==
    Max(minimum, PyRound(start * n - idx * (start - minimum), n))

\* the frequency of position idx (from 0) of n > 1 words:
\* max(minimum, round(start - idx / (n - 1) * (start - minimum)))
FrequencyAt(idx, n, start, minimum) ==
    Max(minimum, PyRound(start * (n - 1) - idx * (start - minimum), n - 1))

\* assign_frequencies(words, start, minimum)
assign_frequencies(words, start, minimum) ==
    IF words = <<>> THEN <<>>
    ELSE IF Len(words) = 1 THEN <<start>>
    ELSE [i \in 1..Len(words) |-> FrequencyAt(i - 1, Len(words), start, minimum)]

-----------------------------------------------------------------------------
(* write_dictionary *)

\* "# Total entries: "
TotalPrefix ==
    <<35, 32, 84, 111, 116, 97, 108, 32, 101, 110, 116, 114, 105, 101, 115, 58, 32>>

\* the lines of header + "\n": four fixed comment lines, the total, a blank line
HeaderLines(total) ==
    << <<35, 32, 75, 97, 110, 110, 97, 100, 97, 32, 68, 105, 99, 116, 105, 111,
         110, 97, 114, 121>>,
       <<35, 32, 70, 111, 114, 109, 97, 116, 58, 32, 119, 111, 114, 100, 32, 102,
         114, 101, 113, 117, 101, 110, 99, 121>>,
       <<35, 32, 65, 117, 116, 111, 45, 103, 101, 110, 101, 114, 97, 116, 101, 100,
         32, 118, 105, 97, 32, 116, 111, 111, 108, 115, 47, 100, 105, 99, 116, 105,
         111, 110, 97, 114, 105, 101, 115, 47, 103, 101, 110, 101, 114, 97, 116,
         101, 95, 107, 97, 110, 110, 97, 100, 97, 95, 100, 105, 99, 116, 105, 111,
         110, 97, 114, 121, 46, 112, 121>>,
       <<35, 32, 83, 111, 117, 114, 99, 101, 58, 32, 65, 108, 97, 114, 32, 75, 97,
         110, 110, 97, 100, 97, 45, 69, 110, 103, 108, 105, 115, 104, 32, 68, 105,
         99, 116, 105, 111, 110, 97, 114, 121, 32, 40, 79, 100, 66, 76, 41, 32,
         8212, 32, 104, 116, 116, 112, 115, 58, 47, 47, 103, 105, 116, 104, 117,
         98, 46, 99, 111, 109, 47, 97, 108, 97, 114, 45, 100, 105, 99, 116, 47,
         100, 97, 116, 97>>,
       TotalPrefix \o IntStr(total),
       <<>> >>

\* the entry line with the frequency ahead of the word
EntryLineFrequencyFirst(word, freq) == IntStr(freq) \o <<32>> \o word

\* f"{word} {freq}\n", as a line
EntryLine(word, freq) == word \o <<32>> \o IntStr(freq)

-----------------------------------------------------------------------------
(* parse_args and the statements of main between its calls *)

\* default of --start-frequency
DefaultStartFrequency == 5000

\* default of --min-frequency
DefaultMinFrequency == 200

\* existing_words[: args.seed_limit], with a limit of 0 read as "no limit"
SeedWordsZeroUnlimited(existing, seed_limit) ==
    IF seed_limit = 0 THEN existing ELSE SlicePrefix(existing, seed_limit)

\* seed_words = existing_words[: args.seed_limit]
SeedWords(existing, seed_limit) == SlicePrefix(existing, seed_limit)

\* seed_set = {word for word in seed_words if len(word) >= args.min_length}
SeedSet(seeds, min_length) == {w \in Range(seeds) : Len(w) >= min_length}

\* required = args.target_count - len(seed_set)
RequiredRaw(target_count, banned) == target_count - Cardinality(banned)

\* total_words without the truncation to target_count
MergeWordsNoTruncate(seeds, ranked, banned, target_count) ==
    seeds \o SelectSeq(ranked, LAMBDA w : w \notin banned)

\* total_words with the ranked words ahead of the seed words
MergeWordsRankedFirst(seeds, ranked, banned, target_count) ==
    SlicePrefix(SelectSeq(ranked, LAMBDA w : w \notin banned) \o seeds, target_count)

\* total_words = (seed_words + [word for word in ranked_words if word not in
\* seed_set])[: args.target_count]
MergeWords(seeds, ranked, banned, target_count) ==
    SlicePrefix(seeds \o SelectSeq(ranked, LAMBDA w : w \notin banned), target_count)

-----------------------------------------------------------------------------
(* Inputs of a run. *)

\* --min-length and --max-length values
Lengths == {2, 3}

\* the lines an existing ASSET_PATH file is made of: an entry of a two-letter
\* word, an entry of a three-letter word, a comment, an entry with a Latin
\* letter in its word
AssetLines ==
    { <<3221, 3246, 32, 53>>,
      <<3221, 3246, 3221, 32, 55>>,
      <<35, 32, 99>>,
      <<3221, 97, 32, 51>> }

\* the lines a source lexicon is made of: entry records of two two-letter
\* words and of a three-letter word
SourceLines ==
    { <<101, 110, 116, 114, 121, 58, 32, 3221, 3246>>,
      <<101, 110, 116, 114, 121, 58, 32, 3246, 3221>>,
      <<101, 110, 116, 114, 121, 58, 32, 3221, 3246, 3221>> }

\* a file that does not exist
Absent == [exists |-> FALSE, lines |-> <<>>]

\* a file holding the given lines
File(lines) == [exists |-> TRUE, lines |-> lines]

\* the arguments main can be given
Args ==
    [target_count : -1..MaxTarget, seed_limit : 0..MaxSeedLimit,
     min_length : Lengths, max_length : Lengths,
     start_frequency : {DefaultStartFrequency},
     min_frequency : {DefaultMinFrequency}]

\* main has computed nothing yet
Fresh ==
    /\ counter = <<>>
    /\ existing_words = <<>>
    /\ seed_words = <<>>
    /\ seed_set = {}
    /\ required = 0
    /\ warned = FALSE
    /\ ranked_words = <<>>
    /\ total_words = <<>>
    /\ freqs = <<>>
    /\ written = 0

Init ==
    /\ pc = "start"
    /\ args \in Args
    /\ remote \in SeqsUpTo(SourceLines, MaxSourceLines)
    /\ cache \in {Absent, File(remote)}
    /\ asset \in {Absent} \cup {File(l) : l \in SeqsUpTo(AssetLines, MaxFileLines)}
    /\ asset0 = asset
    /\ Fresh

-----------------------------------------------------------------------------
(* ensure_source_file *)

\* the cache file exists: it is returned as it is
EnsureSourceCached ==
    /\ pc = "start"
    /\ cache.exists
    /\ pc' = "load"
    /\ UNCHANGED <<args, cache, remote, asset, asset0, counter, existing_words,
                   seed_words, seed_set, required, warned, ranked_words,
                   total_words, freqs, written>>

\* the cache file is missing: the whole response is copied into it
EnsureSourceDownload ==
    /\ pc = "start"
    /\ ~cache.exists
    /\ cache' = File(remote)
    /\ pc' = "load"
    /\ UNCHANGED <<args, remote, asset, asset0, counter, existing_words,
                   seed_words, seed_set, required, warned, ranked_words,
                   total_words, freqs, written>>

\* the cache file is missing and the download raises: in urlopen (no file is
\* made) or in a later read (the file holds what was copied so far)
EnsureSourceFail ==
    /\ pc = "start"
    /\ ~cache.exists
    /\ \/ cache' = cache
       \/ \E k \in 0..Len(remote) : cache' = File(SubSeq(remote, 1, k))
    /\ pc' = "failed"
    /\ UNCHANGED <<args, remote, asset, asset0, counter, existing_words,
                   seed_words, seed_set, required, warned, ranked_words,
                   total_words, freqs, written>>

-----------------------------------------------------------------------------
(* main *)

\* counter = load_word_counts(source_path)
LoadWordCounts ==
    /\ pc = "load"
    /\ counter' = load_word_counts(cache.lines)
    /\ pc' = "seed"
    /\ UNCHANGED <<args, cache, remote, asset, asset0, existing_words,
                   seed_words, seed_set, required, warned, ranked_words,
                   total_words, freqs, written>>

\* existing_words, seed_words, seed_set, required and the warning
LoadSeeds ==
    /\ pc = "seed"
    /\ existing_words' = clean_existing_words(asset)
    /\ seed_words' = SeedWords(existing_words', args.seed_limit)
    /\ seed_set' = SeedSet(seed_words', args.min_length)
    /\ warned' = (RequiredRaw(args.target_count, seed_set') <= 0)
    /\ required' = IF RequiredRaw(args.target_count, seed_set') <= 0 THEN 0
                   ELSE RequiredRaw(args.target_count, seed_set')
    /\ pc' = "rank"
    /\ UNCHANGED <<args, cache, remote, asset, asset0, counter, ranked_words,
                   total_words, freqs, written>>

\* ranked_words = filter_ranked_words(..., keep=max(required, 0), ...)
Rank ==
    /\ pc = "rank"
    /\ ranked_words' = filter_ranked_words(counter, seed_set, Max(required, 0),
                                           args.min_length, args.max_length)
    /\ pc' = "merge"
    /\ UNCHANGED <<args, cache, remote, asset, asset0, counter, existing_words,
                   seed_words, seed_set, required, warned, total_words, freqs,
                   written>>

\* total_words, truncated to target_count
Merge ==
    /\ pc = "merge"
    /\ total_words' = MergeWords(seed_words, ranked_words, seed_set, args.target_count)
    /\ pc' = "assign"
    /\ UNCHANGED <<args, cache, remote, asset, asset0, counter, existing_words,
                   seed_words, seed_set, required, warned, ranked_words, freqs,
                   written>>

\* freqs = assign_frequencies(total_words, start_frequency, min_frequency)
AssignFrequencies ==
    /\ pc = "assign"
    /\ freqs' = assign_frequencies(total_words, args.start_frequency,
                                   args.min_frequency)
    /\ pc' = "open"
    /\ UNCHANGED <<args, cache, remote, asset, asset0, counter, existing_words,
                   seed_words, seed_set, required, warned, ranked_words,
                   total_words, written>>

-----------------------------------------------------------------------------
(* write_dictionary, one action per file operation *)

\* the number of (word, freq) pairs of zip(words, freqs)
Pairs == Min(Len(total_words), Len(freqs))

\* path.open("w"): the file is created or truncated
WriteOpen ==
    /\ pc = "open"
    /\ asset' = File(<<>>)
    /\ pc' = "header"
    /\ UNCHANGED <<args, cache, remote, asset0, counter, existing_words,
                   seed_words, seed_set, required, warned, ranked_words,
                   total_words, freqs, written>>

\* path.open("w") raises: the file is as it was
WriteOpenFail ==
    /\ pc = "open"
    /\ pc' = "failed"
    /\ UNCHANGED <<args, cache, remote, asset, asset0, counter, existing_words,
                   seed_words, seed_set, required, warned, ranked_words,
                   total_words, freqs, written>>

\* fh.write(header + "\n"), total_words being len(total_words) of main
WriteHeader ==
    /\ pc = "header"
    /\ asset' = File(asset.lines \o HeaderLines(Len(total_words)))
    /\ pc' = "entries"
    /\ UNCHANGED <<args, cache, remote, asset0, counter, existing_words,
                   seed_words, seed_set, required, warned, ranked_words,
                   total_words, freqs, written>>

\* fh.write(header + "\n") raises
WriteHeaderFail ==
    /\ pc = "header"
    /\ pc' = "failed"
    /\ UNCHANGED <<args, cache, remote, asset, asset0, counter, existing_words,
                   seed_words, seed_set, required, warned, ranked_words,
                   total_words, freqs, written>>

\* fh.write(f"{word} {freq}\n") for the next pair
WriteEntry ==
    /\ pc = "entries"
    /\ written < Pairs
    /\ asset' = File(Append(asset.lines,
                            EntryLine(total_words[written + 1], freqs[written + 1])))
    /\ written' = written + 1
    /\ UNCHANGED <<pc, args, cache, remote, asset0, counter, existing_words,
                   seed_words, seed_set, required, warned, ranked_words,
                   total_words, freqs>>

\* fh.write(f"{word} {freq}\n") raises
WriteEntryFail ==
    /\ pc = "entries"
    /\ written < Pairs
    /\ pc' = "failed"
    /\ UNCHANGED <<args, cache, remote, asset, asset0, counter, existing_words,
                   seed_words, seed_set, required, warned, ranked_words,
                   total_words, freqs, written>>

\* the loop is over: the file is closed and main returns 0
WriteClose ==
    /\ pc = "entries"
    /\ written = Pairs
    /\ pc' = "done"
    /\ UNCHANGED <<args, cache, remote, asset, asset0, counter, existing_words,
                   seed_words, seed_set, required, warned, ranked_words,
                   total_words, freqs, written>>

Next ==
    \/ EnsureSourceCached
    \/ EnsureSourceDownload
    \/ EnsureSourceFail
    \/ LoadWordCounts
    \/ LoadSeeds
    \/ Rank
    \/ Merge
    \/ AssignFrequencies
    \/ WriteOpen
    \/ WriteOpenFail
    \/ WriteHeader
    \/ WriteHeaderFail
    \/ WriteEntry
    \/ WriteEntryFail
    \/ WriteClose

Spec == Init /\ [][Next]_vars

-----------------------------------------------------------------------------
(* Running the script again: ASSET_PATH is both the seed file main reads and *)
(* the file it writes, so the next run starts from what this run wrote, with *)
(* the same arguments and the same cached source.                            *)

Rerun ==
    /\ pc = "done"
    /\ pc' = "start"
    /\ asset0' = asset
    /\ counter' = <<>>
    /\ existing_words' = <<>>
    /\ seed_words' = <<>>
    /\ seed_set' = {}
    /\ required' = 0
    /\ warned' = FALSE
    /\ ranked_words' = <<>>
    /\ total_words' = <<>>
    /\ freqs' = <<>>
    /\ written' = 0
    /\ UNCHANGED <<args, cache, remote, asset>>

NextRerun == Next \/ Rerun

SpecRerun == Init /\ [][NextRerun]_vars

-----------------------------------------------------------------------------
(* assign_frequencies on its own: every word list length, every pair of      *)
(* frequencies of the bounded range, handed to the statement of main that    *)
(* calls it.                                                                 *)

\* n distinct two-letter words
WordList(n) == [i \in 1..n |-> <<3221, 3221 + i>>]

InitFreq ==
    /\ pc = "assign"
    /\ total_words \in {WordList(n) : n \in 0..MaxWords}
    /\ args \in [target_count : {Len(total_words)}, seed_limit : {0},
                 min_length : {2}, max_length : {2},
                 start_frequency : (0 - MaxFreq)..MaxFreq,
                 min_frequency : (0 - MaxFreq)..MaxFreq]
    /\ remote = <<>>
    /\ cache = File(remote)
    /\ asset = Absent
    /\ asset0 = asset
    /\ counter = <<>>
    /\ existing_words = <<>>
    /\ seed_words = <<>>
    /\ seed_set = {}
    /\ required = 0
    /\ warned = FALSE
    /\ ranked_words = total_words
    /\ freqs = <<>>
    /\ written = 0

NextFreq == AssignFrequencies

SpecFreq == InitFreq /\ [][NextFreq]_vars

-----------------------------------------------------------------------------
(* filter_ranked_words on its own: every Counter of the bounded size, in     *)
(* every insertion order, handed to the statement of main that calls it.     *)

\* the words a Counter is drawn from: two of two letters, two of three
RankWords ==
    { <<3221, 3246>>, <<3246, 3221>>, <<3221, 3246, 3221>>, <<3246, 3221, 3246>> }

\* no word is listed twice
DistinctKeys(cnt) ==
    \A i, j \in 1..Len(cnt) : i # j => cnt[i][1] # cnt[j][1]

\* the Counters of at most MaxKeys words, each counted at most MaxCount times
Counters ==
    {cnt \in SeqsUpTo(RankWords \X (1..MaxCount), MaxKeys) : DistinctKeys(cnt)}

InitRank ==
    /\ pc = "rank"
    /\ counter \in Counters
    /\ seed_set \in {{}, {<<3221, 3246>>}, {<<3221, 3246, 3221>>}}
    /\ required \in 0..MaxKeys
    /\ args \in [target_count : {required + Cardinality(seed_set)},
                 seed_limit : {MaxSeedLimit},
                 min_length : Lengths, max_length : Lengths,
                 start_frequency : {DefaultStartFrequency},
                 min_frequency : {DefaultMinFrequency}]
    /\ remote = <<>>
    /\ cache = File(remote)
    /\ asset = Absent
    /\ asset0 = asset
    /\ existing_words = <<>>
    /\ seed_words = <<>>
    /\ warned = (required = 0)
    /\ ranked_words = <<>>
    /\ total_words = <<>>
    /\ freqs = <<>>
    /\ written = 0

NextRank == Rank

SpecRank == InitRank /\ [][NextRank]_vars

-----------------------------------------------------------------------------
(* extract_word on its own: a source of one line, "entry:" and every value   *)
(* of the bounded length behind it, handed to the statement of main that     *)
(* calls load_word_counts.                                                   *)

\* the characters a value is made of: the two quotes, a space, the two
\* zero-width marks, two script letters, a Latin letter
RawChars == {39, 34, 32, 8204, 8205, 3221, 3246, 97}

InitExtract ==
    /\ pc = "load"
    /\ remote \in {<<EntryTag \o raw>> : raw \in SeqsUpTo(RawChars, MaxRawLen)}
    /\ cache = File(remote)
    /\ args \in [target_count : {MaxTarget}, seed_limit : {MaxSeedLimit},
                 min_length : {2}, max_length : {3},
                 start_frequency : {DefaultStartFrequency},
                 min_frequency : {DefaultMinFrequency}]
    /\ asset = Absent
    /\ asset0 = asset
    /\ Fresh

NextExtract == LoadWordCounts

SpecExtract == InitExtract /\ [][NextExtract]_vars

-----------------------------------------------------------------------------
(* Properties. *)

\* positions of main at which seed_words, seed_set and required are set
Seeded == {"rank", "merge", "assign", "open", "header", "entries", "done"}

\* positions of main at which total_words is the final output list
Merged == {"assign", "open", "header", "entries", "done"}

\* the elements of s are pairwise distinct
Distinct(s) == \A i, j \in 1..Len(s) : i # j => s[i] # s[j]

\* every character of w is a code point of U+0C80..U+0CFF
InScript(w) == \A i \in 1..Len(w) : w[i] \in 3200..3327

\* the words the Counter of main counts
Counted == {counter[i][1] : i \in 1..Len(counter)}

\* C1: for target_count >= 0 and seed_limit >= 0 the words of the final output
\* list are pairwise distinct.
C1_OutputDistinct ==
    (pc \in Merged /\ args.target_count >= 0 /\ args.seed_limit >= 0)
        => Distinct(total_words)

\* C1 witness: a run has ended whose seed prefix holds a word shorter than
\* min_length that the source also counts, and whose output holds ranked words.
C1_Witness ==
    /\ pc = "done"
    /\ \E w \in Range(seed_words) : Len(w) < args.min_length /\ w \in Counted
    /\ Len(total_words) > Len(seed_words)
    /\ Range(seed_words) \subseteq Range(total_words)

\* C2 as claimed: every position of the seed prefix is a position of the
\* output, and holds the same word.
C2_SeedPrefixWhole ==
    pc \in Merged =>
        \A i \in 1..Len(seed_words) :
            i <= Len(total_words) /\ total_words[i] = seed_words[i]

\* C2, amended: every position of the seed prefix below target_count is a
\* position of the output, and holds the same word.
C2_SeedPrefixTruncated ==
    pc \in Merged =>
        \A i \in 1..Len(seed_words) :
            i <= args.target_count =>
                i <= Len(total_words) /\ total_words[i] = seed_words[i]

\* C2 witness: a run has ended that pinned two seed words and was asked for
\* one word.
C2_Witness ==
    /\ pc = "done"
    /\ Len(seed_words) = 2
    /\ args.target_count = 1
    /\ total_words = <<seed_words[1]>>

\* C3 as claimed: every output word is made of script characters and is no
\* longer than max_length, and is no shorter than min_length unless it is a
\* seed word.
C3_LengthBoundsAll ==
    pc \in Merged =>
        \A i \in 1..Len(total_words) :
            /\ InScript(total_words[i])
            /\ Len(total_words[i]) <= args.max_length
            /\ Len(total_words[i]) >= args.min_length \/ i <= Len(seed_words)

\* C3, amended: every output word is made of script characters, and every
\* output word behind the seed prefix has min_length <= len <= max_length.
C3_LengthBoundsRanked ==
    pc \in Merged =>
        \A i \in 1..Len(total_words) :
            /\ InScript(total_words[i])
            /\ i > Len(seed_words) =>
                   /\ Len(total_words[i]) >= args.min_length
                   /\ Len(total_words[i]) <= args.max_length

\* C3 witness: a run has ended whose output holds a seed word longer than
\* max_length and a ranked word.
C3_Witness ==
    /\ pc = "done"
    /\ \E i \in 1..Len(seed_words) :
           i <= Len(total_words) /\ Len(total_words[i]) > args.max_length
    /\ Len(total_words) > Len(seed_words)

\* C4 as claimed: with seed_limit = 0 the seed prefix is the whole list of
\* valid words of the existing file.
C4_ZeroPinsAll ==
    (pc \in Seeded /\ args.seed_limit = 0)
        => seed_words = clean_existing_words(asset0)

\* C4, amended: with seed_limit = 0 nothing is pinned: the seed prefix and the
\* exclusion set are empty, and the output is the ranked words, truncated to
\* target_count.
C4_ZeroPinsNone ==
    (pc \in Seeded /\ args.seed_limit = 0) =>
        /\ seed_words = <<>>
        /\ seed_set = {}
        /\ pc \in Merged => total_words = SlicePrefix(ranked_words, args.target_count)

\* C4 witness: a run with seed_limit = 0 has ended whose existing file held a
\* valid word and whose output is not empty.
C4_Witness ==
    /\ pc = "done"
    /\ args.seed_limit = 0
    /\ clean_existing_words(asset0) # <<>>
    /\ total_words # <<>>

\* C5 as claimed: the quota is max(target_count - len(seed_prefix), 0), and
\* when target_count <= len(seed_prefix) the warning is printed, the quota is
\* 0 and the output is the seed prefix truncated to target_count.
C5_QuotaFromSeedPrefix ==
    pc \in Seeded =>
        /\ Max(required, 0) = Max(args.target_count - Len(seed_words), 0)
        /\ args.target_count <= Len(seed_words) =>
               /\ warned
               /\ required = 0
               /\ pc \in Merged =>
                      total_words = SlicePrefix(seed_words, args.target_count)

\* C6 as claimed: after a run that failed the output file is as it was when
\* the run started.
C6_FailureLeavesFile == pc = "failed" => asset = asset0

\* C7: the list assign_frequencies returns is as long as the word list and
\* non-increasing.
C7_NonIncreasing ==
    pc = "open" =>
        /\ Len(freqs) = Len(total_words)
        /\ \A i \in 1..(Len(freqs) - 1) : freqs[i] >= freqs[i + 1]

\* C7 witness: assign_frequencies has returned three or more values, strictly
\* falling over the first three.
C7_Witness ==
    /\ pc = "open"
    /\ Len(freqs) >= 3
    /\ freqs[1] > freqs[2]
    /\ freqs[2] > freqs[3]

EntryLinesOf(file) ==
    SelectSeq(file.lines, LAMBDA l : l # <<>> /\ ~StartsWith(l, <<35>>))

\* C9: for target_count >= 0 the output list has at most target_count words,
\* the file written holds one line per word and states that number as its
\* total; for target_count = 0 both are 0.
C9_AtMostTarget ==
    (pc \in Merged /\ args.target_count >= 0) =>
        /\ Len(total_words) <= args.target_count
        /\ pc = "done" =>
               /\ Len(EntryLinesOf(asset)) = Len(total_words)
               /\ \E n \in 0..args.target_count :
                      /\ n = Len(EntryLinesOf(asset))
                      /\ asset.lines[5] = TotalPrefix \o <<48 + n>>
        /\ (pc = "done" /\ args.target_count = 0) =>
               /\ total_words = <<>>
               /\ asset.lines = HeaderLines(0)

\* C9 witness: a run has ended whose seed and ranked words together were more
\* than the target_count >= 1 it was asked for.
C9_Witness ==
    /\ pc = "done"
    /\ args.target_count >= 1
    /\ Len(seed_words) + Len(ranked_words) > args.target_count
    /\ Len(total_words) = args.target_count

\* the count the Counter of main gives a word it counts
CountOf(w) == counter[CHOOSE i \in 1..Len(counter) : counter[i][1] = w][2]

\* a is before b in lexical order: they first differ where a is smaller, or a
\* is a proper prefix of b
LexBefore(a, b) ==
    \E k \in 1..Len(b) :
        /\ \A j \in 1..(k - 1) : j <= Len(a) /\ a[j] = b[j]
        /\ k > Len(a) \/ (k <= Len(a) /\ a[k] < b[k])

\* word a ranks before word b: more often counted, then shorter, then
\* lexically smaller
RanksBefore(a, b) ==
    \/ CountOf(a) > CountOf(b)
    \/ CountOf(a) = CountOf(b) /\ Len(a) < Len(b)
    \/ CountOf(a) = CountOf(b) /\ Len(a) = Len(b) /\ LexBefore(a, b)

\* the eligible candidates: counted, not excluded, of a length within bounds
Eligible ==
    {w \in Counted :
        /\ w \notin seed_set
        /\ args.min_length <= Len(w)
        /\ Len(w) <= args.max_length}

\* the permutations of a sequence
Permutations_(s) ==
    {[i \in 1..Len(s) |-> s[f[i]]] :
        f \in {g \in [1..Len(s) -> 1..Len(s)] :
                  \A i, j \in 1..Len(s) : i # j => g[i] # g[j]}}

\* C10: filter_ranked_words returns the first K eligible candidates in rank
\* order: K of them or all, each ranking before the next and before every
\* eligible word left out; and it returns the same for every order in which
\* the Counter lists its words.
C10_FirstKByRank ==
    pc = "merge" =>
        /\ Len(ranked_words) = Min(Max(required, 0), Cardinality(Eligible))
        /\ Range(ranked_words) \subseteq Eligible
        /\ \A i, j \in 1..Len(ranked_words) :
               i < j => RanksBefore(ranked_words[i], ranked_words[j])
        /\ \A w \in Eligible \ Range(ranked_words) :
               \A i \in 1..Len(ranked_words) : RanksBefore(ranked_words[i], w)
        /\ \A other \in Permutations_(counter) :
               filter_ranked_words(other, seed_set, Max(required, 0),
                                   args.min_length, args.max_length) = ranked_words

\* C10 witness: filter_ranked_words has returned two words of the same count
\* and length that the Counter lists in the other order, and left an eligible
\* word out.
C10_Witness ==
    /\ pc = "merge"
    /\ Len(ranked_words) = 2
    /\ CountOf(ranked_words[1]) = CountOf(ranked_words[2])
    /\ Len(ranked_words[1]) = Len(ranked_words[2])
    /\ \E i, j \in 1..Len(counter) :
           i < j /\ counter[i][1] = ranked_words[2] /\ counter[j][1] = ranked_words[1]
    /\ Cardinality(Eligible) > 2

\* the value captured from the one line of the source; <<>> when the line is
\* no entry record
Captured == EntryCapture(cache.lines[1])

\* the token load_word_counts counted for that line; <<>> when it counted none
Token == IF counter = <<>> THEN <<>> ELSE counter[1][1]

\* v without its first and last character when both are quote characters
Unquoted(v) ==
    IF Len(v) >= 1 /\ v[1] \in {39, 34} /\ v[Len(v)] \in {39, 34}
    THEN [i \in 1..Max(Len(v) - 2, 0) |-> v[i + 1]]
    ELSE v

\* v without the marks U+200C and U+200D
Unmarked(v) == SelectSeq(v, LAMBDA ch : ch \notin {8204, 8205})

\* v without the whitespace at its two ends
Trimmed(v) ==
    LET inner == {i \in 1..Len(v) : v[i] \notin Whitespace}
    IN  IF inner = {} THEN <<>>
        ELSE LET lo == CHOOSE i \in inner : \A j \in inner : i <= j
                 hi == CHOOSE i \in inner : \A j \in inner : j <= i
             IN  [i \in 1..(hi - lo + 1) |-> v[lo + i - 1]]

\* the longest prefix of v made of script characters only
ScriptRun(v) ==
    LET ok == {k \in 0..Len(v) : \A i \in 1..k : v[i] \in 3200..3327}
        n == CHOOSE k \in ok : \A j \in ok : j <= k
    IN  [i \in 1..n |-> v[i]]

\* the token of a run: the run, or none when it has fewer than 2 characters
TokenOf(run) == IF Len(run) < 2 THEN <<>> ELSE run

\* C11 as claimed: the token is the leading script run of the value with its
\* quotes stripped and its marks removed, none when the run is shorter than 2;
\* so a value whose first character behind the quotes is no script character
\* gives no token.
C11_RunAfterQuotesAndMarks ==
    (pc = "seed" /\ Captured # <<>>) =>
        /\ Token = TokenOf(ScriptRun(Unmarked(Unquoted(Captured))))
        /\ (Unquoted(Captured) # <<>> /\ Unquoted(Captured)[1] \notin 3200..3327)
               => Token = <<>>

\* C11, amended: the token is the leading script run of the value with its
\* quotes stripped, then the whitespace at its ends stripped, then its marks
\* removed, none when the run is shorter than 2 (and counted once); so a value
\* of which the first character that remains is no script character gives no
\* token.
C11_RunAfterQuotesTrimAndMarks ==
    (pc = "seed" /\ Captured # <<>>) =>
        /\ Token = TokenOf(ScriptRun(Unmarked(Trimmed(Unquoted(Captured)))))
        /\ Len(counter) <= 1
        /\ counter # <<>> => counter[1][2] = 1
        /\ (Unmarked(Trimmed(Unquoted(Captured))) # <<>>
               /\ Unmarked(Trimmed(Unquoted(Captured)))[1] \notin 3200..3327)
               => Token = <<>>

\* C11 witness: a quoted value with a space behind its opening quote and a
\* Latin letter behind two script letters has given the two letters as token.
C11_Witness ==
    /\ pc = "seed"
    /\ Len(Captured) = MaxRawLen
    /\ Captured[1] \in {39, 34}
    /\ Captured[2] = 32
    /\ Captured[Len(Captured)] \in {39, 34}
    /\ Token = <<Captured[3], Captured[4]>>

\* the file is one write_dictionary wrote: it starts with the four fixed
\* comment lines of the header
WrittenByRun(file) ==
    /\ file.exists
    /\ Len(file.lines) >= 6
    /\ \A i \in 1..4 : file.lines[i] = HeaderLines(0)[i]

\* C12: for target_count >= 0 and seed_limit >= 0, a run that started from the
\* file an earlier run wrote ends with the same entry lines (word and
\* frequency) in the file as it started from.
C12_RerunFixedPoint ==
    (pc = "done" /\ WrittenByRun(asset0)
        /\ args.target_count >= 0 /\ args.seed_limit >= 0)
        => EntryLinesOf(asset) = EntryLinesOf(asset0)

\* C12 witness: a run that started from the file an earlier run wrote has
\* ended, having pinned a seed word and ranked another word behind it.
C12_Witness ==
    /\ pc = "done"
    /\ WrittenByRun(asset0)
    /\ Len(seed_words) >= 1
    /\ Len(ranked_words) >= 1
    /\ Len(total_words) = Len(seed_words) + Len(ranked_words)
    /\ Len(EntryLinesOf(asset)) = Len(total_words)

====
